---- MODULE Spec2Model ----
(***************************************************************************)
(* FeatureSelector (src/selector/selector.py): construction, the loader,   *)
(* the two importance reducers, one-factor scoring, the threshold-gated    *)
(* backward elimination and the __call__ chain.                            *)
(*                                                                         *)
(* The model-fitting oracle (XGBoost fit / predict / feature_importances_, *)
(* SHAP, roc_auc_score, mean_squared_error) is external: every fit either  *)
(* fails or returns values chosen nondeterministically from bounded sets.  *)
(* Scores are fixed-point integers: Unit stands for the float 1.0.         *)
(* Column names are integers: IdCol, TargetCol and the features 1..n.      *)
(***************************************************************************)
EXTENDS Integers, Sequences, FiniteSets, TLC

\* ---------------------------------------------------------------- bounds
MaxFeat == 3
Unit == 2
MaxCalls == 2

\* values of an importance (native, or mean absolute SHAP): never negative
ImpValues == {0, 1, 2}
\* values of self.threshold, in the fixed-point scale
Thresholds == {0, 1}
\* RMSE is unbounded above; the bound lets it exceed 1.0 + threshold.
MaxRmse == Unit + 1
\* No run of the code as written performs this many fits in one stage.
MaxFits == MaxFeat + 3

\* ------------------------------------------------------------- constants
IdCol == 0
TargetCol == MaxFeat + 1
NoneNF == -1
Unassigned == -1
Unread == -2
NoDf == <<>>

TypeValues == {"classification", "regression", "other"}

\* parameters[...] keys in the order __init__ reads them into attributes
ParamOrder ==
  <<"path_data", "sep", "target", "id", "type", "num_features",
    "threshold", "n_jobs", "output_file_name">>

AttrOrder ==
  <<"path", "sep", "target", "id", "type", "num_features",
    "threshold", "n_jobs", "output_file_name">>

VARIABLES
  params,        \* the argument of __init__, but for the two values below
  threshold,     \* self.threshold, Unread until one_factor_selection reads it
  num_features,  \* self.num_features, likewise
  attrs,         \* attributes of self that have been assigned
  mode,          \* "none", "call" (driven by __call__) or "manual"
  callpos,       \* index into CallChain of the next stage of __call__
  stage,         \* the method running, or the last one that ran
  pc,            \* "new", "idle", "loop", "tail", "raised"
  err,           \* the exception that propagated, or "none"
  df,            \* self.df: its column list, NoDf for None
  columns,       \* local `columns` of the running stage
  len_previous_columns,
  list_score,
  previous_score,
  current_score,
  drop_column,
  column,        \* loop variable of one_factor_calculate_score
  nfits,         \* model.fit calls made by the method running, or by the last one
  hist,          \* history: methods entered, and "save" when the file is written
  written        \* number of times the output file has been written

vars ==
  <<params, threshold, num_features, attrs, mode, callpos, stage, pc, err, df, columns,
    len_previous_columns, list_score, previous_score, current_score,
    drop_column, column, nfits, hist, written>>

locals ==
  <<columns, len_previous_columns, list_score, previous_score,
    current_score, drop_column, column>>

\* no method is running: its frame and locals are gone
NoLocals ==
  /\ columns' = <<>>
  /\ len_previous_columns' = -1
  /\ list_score' = <<>>
  /\ previous_score' = 0
  /\ current_score' = 0
  /\ drop_column' = Unassigned
  /\ column' = Unassigned

config == <<params, attrs>>

\* --------------------------------------------------------------- helpers
Range(s) == {s[i] : i \in DOMAIN s}

\* list.remove(x): drops the first occurrence of x
Remove(s, x) ==
  LET i == CHOOSE k \in DOMAIN s : s[k] = x /\ \A j \in 1..(k - 1) : s[j] # x
  IN  SubSeq(s, 1, i - 1) \o SubSeq(s, i + 1, Len(s))

\* columns = list(self.df.columns); columns.remove(target); columns.remove(id)
FeatureColumns(d) == Remove(Remove(d, TargetCol), IdCol)

\* an element of a list used as a DataFrame key
Col(n) == [kind |-> "col", name |-> n]
Nested(l) == [kind |-> "list", items |-> l]
Cols(l) == [i \in DOMAIN l |-> Col(l[i])]

\* df[key]: a key whose elements are all column labels of df selects them in
\* key order; a key holding a nested list is no list of labels and raises
KeyIsFlat(key) == \A i \in DOMAIN key : key[i].kind = "col"
KeyOk(d, key) == KeyIsFlat(key) /\ \A i \in DOMAIN key : key[i].name \in Range(d)
GetItem(d, key) == [i \in DOMAIN key |-> key[i].name]

\* permutations of 1..n
AllIndexPerms ==
  [n \in 0..MaxFeat |->
     {p \in [1..n -> 1..n] : \A i, j \in 1..n : i # j => p[i] # p[j]}]
IndexPerms(n) == AllIndexPerms[n]

\* DataFrame.sort_values(by, ascending): the order of equal keys is not fixed
SortOutcomes(value, ascending) ==
  {p \in IndexPerms(Len(value)) :
     \A i, j \in 1..Len(value) :
        i < j => IF ascending THEN value[p[i]] <= value[p[j]]
                              ELSE value[p[i]] >= value[p[j]]}

\* the row filter of get_df_importance
KeepsRowZeroToo(v) == TRUE
KeepsRow(v) == v # 0

\* get_df_importance(value, columns): the lists it can return
get_df_importance(value, cols) ==
  {LET kept == SelectSeq(p, LAMBDA i : KeepsRow(value[i]))
   IN  [k \in DOMAIN kept |-> cols[kept[k]]] : p \in SortOutcomes(value, FALSE)}

\* importance vectors the oracle may return for n columns
ImportanceVectors(n) == [1..n -> ImpValues]

\* get_df_importance reads the names only to carry them along: what it returns
\* for some importance vector, on the columns taken by position, is tabulated
\* once for each length
ImportanceOutcomes ==
  [n \in 0..MaxFeat |->
     UNION {get_df_importance(value, [i \in 1..n |-> i]) :
              value \in ImportanceVectors(n)}]

\* build_model binds `model` only for the two known task types
TypeBindsModel(t) == t \in {"classification", "regression"}

\* ------------------------------------------------------------------ Init
ParamSpace ==
  [isdict : BOOLEAN,
   missing : {"none"} \cup Range(ParamOrder),
   path_exists : BOOLEAN,
   target_truthy : BOOLEAN,
   type : TypeValues]

\* parameters['threshold'] and parameters['num_features'] are opaque to every
\* method but one_factor_selection: the model draws their values where that
\* method first reads them, and keeps them from then on
NumFeaturesValues == {NoneNF} \cup 0..MaxFeat

\* header rows of the file at path_data: id, n features, target
CsvHeader(n) == <<IdCol>> \o [i \in 1..n |-> i] \o <<TargetCol>>
CsvHeaders == {CsvHeader(n) : n \in 0..MaxFeat}

Init ==
  /\ params \in ParamSpace
  /\ threshold = Unread
  /\ num_features = Unread
  /\ attrs = {}
  /\ mode = "none"
  /\ callpos = 0
  /\ stage = "none"
  /\ pc = "new"
  /\ err = "none"
  /\ df = NoDf
  /\ columns = <<>>
  /\ len_previous_columns = -1
  /\ list_score = <<>>
  /\ previous_score = 0
  /\ current_score = 0
  /\ drop_column = Unassigned
  /\ column = Unassigned
  /\ nfits = 0
  /\ hist = <<>>
  /\ written = 0

\* -------------------------------------------------------------- __init__
\* check_path(path): whether the path exists
check_path(p) == p.path_exists

Present(p, k) == p.missing # k

\* the exception the validation block raises, "none" when it passes
ValidationError(p) ==
  IF ~p.isdict THEN "TypeError"
  ELSE IF ~Present(p, "path_data") THEN "KeyError"
  ELSE IF ~check_path(p) THEN "ValueError"
  ELSE IF ~Present(p, "target") THEN "KeyError"
  ELSE IF ~p.target_truthy THEN "KeyError"
  ELSE "none"

\* index of the first assignment self.x = parameters[k] whose key is absent
FirstMissing(p) ==
  IF \E i \in DOMAIN ParamOrder : ~Present(p, ParamOrder[i])
  THEN CHOOSE i \in DOMAIN ParamOrder :
         /\ ~Present(p, ParamOrder[i])
         /\ \A j \in 1..(i - 1) : Present(p, ParamOrder[j])
  ELSE 0

init ==
  /\ pc = "new"
  /\ stage' = "__init__"
  /\ IF ValidationError(params) # "none"
     THEN /\ pc' = "raised"
          /\ err' = ValidationError(params)
          /\ attrs' = {}
     ELSE IF FirstMissing(params) # 0
     THEN /\ pc' = "raised"
          /\ err' = "KeyError"
          /\ attrs' = {AttrOrder[i] : i \in 1..(FirstMissing(params) - 1)}
     ELSE /\ pc' = "idle"
          /\ err' = "none"
          /\ attrs' = Range(AttrOrder) \cup {"df"}
  /\ UNCHANGED <<params, threshold, num_features, mode, callpos, df, nfits,
                 hist, written>>
  /\ UNCHANGED locals

\* ------------------------------------------------------- stage sequencing
\* the body of __call__
CallChainWithImportance ==
  <<"create_dataframes", "get_feature_by_importance", "get_feature_by_shap",
    "one_factor_calculate_score", "one_factor_selection">>
CallChainSelectionEarly ==
  <<"create_dataframes", "get_feature_by_shap",
    "one_factor_selection", "one_factor_calculate_score">>
CallChain ==
  <<"create_dataframes", "get_feature_by_shap",
    "one_factor_calculate_score", "one_factor_selection">>

call ==
  /\ pc = "idle"
  /\ mode = "none"
  /\ mode' = "call"
  /\ callpos' = 1
  /\ UNCHANGED <<params, threshold, num_features, attrs, stage, pc, err, df,
                 nfits, hist, written>>
  /\ UNCHANGED locals

\* methods entered so far
Entered(h) == SelectSeq(h, LAMBDA e : e # "save")

\* method s is entered now: by the next statement of __call__, or by the caller
Enter(s) ==
  /\ pc = "idle"
  /\ \/ /\ mode = "call"
        /\ callpos \in DOMAIN CallChain
        /\ CallChain[callpos] = s
        /\ mode' = mode
     \/ /\ mode \in {"none", "manual"}
        /\ Len(Entered(hist)) < MaxCalls
        /\ mode' = "manual"
  /\ stage' = s
  /\ hist' = Append(hist, s)
  /\ written' = written
  /\ df' = df
  /\ UNCHANGED config

\* the running method goes on to its loop
Continue ==
  /\ pc' = "loop"
  /\ UNCHANGED <<err, callpos>>

\* the running method returns
Return ==
  /\ pc' = "idle"
  /\ err' = "none"
  /\ callpos' = IF mode = "call" THEN callpos + 1 ELSE callpos
  /\ NoLocals

\* the running method raises e, which nothing catches
Raise(e) ==
  /\ pc' = "raised"
  /\ err' = e
  /\ callpos' = callpos
  /\ NoLocals

\* a step inside the running method s
InStage(s) ==
  /\ pc = "loop"
  /\ stage = s
  /\ UNCHANGED <<mode, stage, hist, written>>
  /\ UNCHANGED config

\* ------------------------------------------------------ create_dataframes
create_dataframes ==
  /\ pc = "idle"
  /\ \/ /\ mode = "call"
        /\ callpos \in DOMAIN CallChain
        /\ CallChain[callpos] = "create_dataframes"
        /\ mode' = mode
     \/ /\ mode \in {"none", "manual"}
        /\ Len(Entered(hist)) < MaxCalls
        /\ mode' = "manual"
  /\ stage' = "create_dataframes"
  /\ hist' = Append(hist, "create_dataframes")
  /\ nfits' = 0
  /\ \/ /\ df' \in CsvHeaders
        /\ Return
     \/ /\ df' = df
        /\ Raise("IOError")
  /\ UNCHANGED <<threshold, num_features, written>>
  /\ UNCHANGED config

\* ---------------------------------------------- get_feature_by_importance
ImpEntry ==
  /\ nfits' = 0
  /\ UNCHANGED <<threshold, num_features>>
  /\ IF df = NoDf
     THEN Raise("AttributeError")
     ELSE /\ columns' = FeatureColumns(df)
          /\ len_previous_columns' = -1
          /\ Continue
          /\ UNCHANGED <<list_score, previous_score, current_score,
                         drop_column, column>>

\* while len(columns) != len_previous_columns
ImpLoopConditionOffByOne(cols, prev) == Len(cols) # prev - 1
ImpLoopCondition(cols, prev) == Len(cols) # prev

\* one iteration: fit, read feature_importances_, filter and reorder
ImpLoopBody ==
  /\ ImpLoopCondition(columns, len_previous_columns)
  /\ nfits < MaxFits
  /\ UNCHANGED <<df, threshold, num_features>>
  /\ IF ~TypeBindsModel(params.type)
     THEN /\ Raise("UnboundLocalError")
          /\ nfits' = nfits
     ELSE /\ nfits' = nfits + 1
          /\ \/ Raise("ModelFitError")
             \/ /\ \E kept \in ImportanceOutcomes[Len(columns)] :
                      columns' = [k \in DOMAIN kept |-> columns[kept[k]]]
                /\ len_previous_columns' = Len(columns)
                /\ Continue
                /\ UNCHANGED <<list_score, previous_score, current_score,
                               drop_column, column>>

\* after the loop: the column selection
ImpAfterLoop ==
  /\ ~ImpLoopCondition(columns, len_previous_columns)
  /\ UNCHANGED <<nfits, threshold, num_features>>
  /\ LET key == IF Len(columns) > 1
                THEN <<Col(IdCol)>> \o Cols(columns) \o <<Col(TargetCol)>>
                ELSE <<Col(IdCol)>> \o <<Nested(columns)>> \o <<Col(TargetCol)>>
     IN  IF KeyOk(df, key)
         THEN df' = GetItem(df, key) /\ Return
         ELSE df' = df /\ Raise("TypeError")

imp_enter == Enter("get_feature_by_importance") /\ ImpEntry
imp_iter == InStage("get_feature_by_importance") /\ ImpLoopBody
imp_exit == InStage("get_feature_by_importance") /\ ImpAfterLoop

get_feature_by_importance == imp_enter \/ imp_iter \/ imp_exit

\* ---------------------------------------------------- get_feature_by_shap
ShapEntry ==
  /\ nfits' = 0
  /\ UNCHANGED <<threshold, num_features>>
  /\ IF df = NoDf
     THEN Raise("AttributeError")
     ELSE /\ columns' = FeatureColumns(df)
          /\ len_previous_columns' = -1
          /\ Continue
          /\ UNCHANGED <<list_score, previous_score, current_score,
                         drop_column, column>>

\* while len(columns) != len_previous_columns
ShapLoopConditionOffByOne(cols, prev) == Len(cols) # prev - 1
ShapLoopCondition(cols, prev) == Len(cols) # prev

\* one iteration: fit, TreeExplainer.shap_values, np.abs(...).mean(0), filter
ShapLoopBody ==
  /\ ShapLoopCondition(columns, len_previous_columns)
  /\ nfits < MaxFits
  /\ UNCHANGED <<df, threshold, num_features>>
  /\ IF ~TypeBindsModel(params.type)
     THEN /\ Raise("UnboundLocalError")
          /\ nfits' = nfits
     ELSE /\ nfits' = nfits + 1
          /\ \/ Raise("ModelFitError")
             \/ /\ \E kept \in ImportanceOutcomes[Len(columns)] :
                      columns' = [k \in DOMAIN kept |-> columns[kept[k]]]
                /\ len_previous_columns' = Len(columns)
                /\ Continue
                /\ UNCHANGED <<list_score, previous_score, current_score,
                               drop_column, column>>

ShapAfterLoop ==
  /\ ~ShapLoopCondition(columns, len_previous_columns)
  /\ UNCHANGED <<nfits, threshold, num_features>>
  /\ LET key == IF Len(columns) > 1
                THEN <<Col(IdCol)>> \o Cols(columns) \o <<Col(TargetCol)>>
                ELSE <<Col(IdCol)>> \o <<Nested(columns)>> \o <<Col(TargetCol)>>
     IN  IF KeyOk(df, key)
         THEN df' = GetItem(df, key) /\ Return
         ELSE df' = df /\ Raise("TypeError")

shap_enter == Enter("get_feature_by_shap") /\ ShapEntry
shap_iter == InStage("get_feature_by_shap") /\ ShapLoopBody
shap_exit == InStage("get_feature_by_shap") /\ ShapAfterLoop

get_feature_by_shap == shap_enter \/ shap_iter \/ shap_exit

\* ------------------------------------------------------- the score oracle
\* roc_auc_score lies in [0, 1]; sqrt(mean_squared_error) is >= 0
AucValues == 0..Unit
RmseValues == 0..MaxRmse

\* --------------------------------------------- one_factor_calculate_score
\* if len(columns) > 1
ScoreGuard(cols) == Len(cols) > 1

score_enter ==
  /\ Enter("one_factor_calculate_score")
  /\ nfits' = 0
  /\ UNCHANGED <<threshold, num_features>>
  /\ IF df = NoDf
     THEN Raise("AttributeError")
     ELSE IF ScoreGuard(FeatureColumns(df))
     THEN /\ columns' = FeatureColumns(df)
          /\ list_score' = <<>>
          /\ Continue
          /\ UNCHANGED <<len_previous_columns, previous_score, current_score,
                         drop_column, column>>
     ELSE Return

\* one pass of `for column in columns`: fit on [column] and score it
score_iter ==
  /\ InStage("one_factor_calculate_score")
  /\ Len(list_score) < Len(columns)
  /\ UNCHANGED <<df, threshold, num_features>>
  /\ LET c == columns[Len(list_score) + 1]
     IN  IF ~TypeBindsModel(params.type)
         THEN /\ Raise("UnboundLocalError")
              /\ nfits' = nfits
         ELSE /\ nfits' = nfits + 1
              /\ \/ Raise("ModelFitError")
                 \/ /\ column' = c
                    /\ \E score \in IF params.type = "classification"
                                    THEN AucValues ELSE RmseValues :
                          list_score' = Append(list_score, score)
                    /\ Continue
                    /\ UNCHANGED <<columns, len_previous_columns, previous_score,
                                   current_score, drop_column>>

\* ascending=[False if self.type == 'classification' else True][0]
AscendingAlways(t) == TRUE
Ascending(t) == IF t = "classification" THEN FALSE ELSE TRUE

\* after the loop: sort by score and reorder the feature block
score_exit ==
  /\ InStage("one_factor_calculate_score")
  /\ Len(list_score) = Len(columns)
  /\ UNCHANGED <<nfits, threshold, num_features>>
  /\ \E p \in SortOutcomes(list_score, Ascending(params.type)) :
        LET names == [i \in DOMAIN p |-> columns[p[i]]]
            key == <<Col(IdCol)>> \o Cols(names) \o <<Col(TargetCol)>>
        IN  IF KeyOk(df, key)
            THEN df' = GetItem(df, key) /\ Return
            ELSE df' = df /\ Raise("TypeError")

one_factor_calculate_score == score_enter \/ score_iter \/ score_exit

\* --------------------------------------------------- one_factor_selection
\* the score of a successful fit, as current_score stores it
CurrentScores(t) ==
  IF t = "classification" THEN AucValues ELSE {-r : r \in RmseValues}

\* if len(columns) > 1
SelectionGuardAtLeastOne(cols) == Len(cols) >= 1
SelectionGuard(cols) == Len(cols) > 1

\* self.threshold / self.num_features as read now
ReadThreshold == IF threshold = Unread THEN Thresholds ELSE {threshold}
ReadNumFeatures == IF num_features = Unread THEN NumFeaturesValues ELSE {num_features}

\* entry, and with more than one column the first fit and score
sel_enter ==
  /\ Enter("one_factor_selection")
  /\ num_features' = num_features
  /\ IF df = NoDf
     THEN /\ Raise("AttributeError")
          /\ nfits' = 0
          /\ threshold' = threshold
     ELSE IF SelectionGuard(FeatureColumns(df))
     THEN IF ~TypeBindsModel(params.type)
          THEN /\ Raise("UnboundLocalError")
               /\ nfits' = 0
               /\ threshold' = threshold
          ELSE /\ nfits' = 1
               /\ \/ /\ Raise("ModelFitError")
                     /\ threshold' = threshold
                  \/ /\ threshold' \in ReadThreshold
                     /\ previous_score' = -Unit
                     /\ columns' = FeatureColumns(df)
                     /\ current_score' \in CurrentScores(params.type)
                     /\ drop_column' = Unassigned
                     /\ Continue
                     /\ UNCHANGED <<len_previous_columns, list_score, column>>
     ELSE /\ nfits' = 0
          /\ threshold' = threshold
          /\ previous_score' = -Unit
          /\ current_score' = 0
          /\ columns' = FeatureColumns(df)
          /\ pc' = "tail"
          /\ UNCHANGED <<err, callpos, drop_column, column,
                         len_previous_columns, list_score>>

\* while (previous_score - current_score <= self.threshold) and (len(columns) > 1)
WithinThreshold(prev, cur, thr) == prev - cur <= thr

LoopCondition ==
  /\ WithinThreshold(previous_score, current_score, threshold)
  /\ Len(columns) > 1

\* columns.pop(-1): the position it removes
PoppedIndexFirst(cols) == 1
PoppedIndex(cols) == Len(cols)

\* one iteration: pop the last column, shift the score, refit, rescore
sel_iter ==
  /\ InStage("one_factor_selection")
  /\ LoopCondition
  /\ nfits < MaxFits
  /\ UNCHANGED <<df, threshold, num_features>>
  /\ nfits' = nfits + 1
  /\ \/ Raise("ModelFitError")
     \/ /\ drop_column' = columns[PoppedIndex(columns)]
        /\ columns' = SubSeq(columns, 1, PoppedIndex(columns) - 1)
                         \o SubSeq(columns, PoppedIndex(columns) + 1, Len(columns))
        /\ previous_score' = current_score
        /\ current_score' \in CurrentScores(params.type)
        /\ Continue
        /\ UNCHANGED <<len_previous_columns, list_score, column>>

\* columns[:self.num_features]
PrefixOneMore(cols, k) == SubSeq(cols, 1, IF k + 1 < Len(cols) THEN k + 1 ELSE Len(cols))
Prefix(cols, k) == SubSeq(cols, 1, IF k < Len(cols) THEN k ELSE Len(cols))

\* columns = columns + [drop_column]
RetainedTwice(cols, drop) == Append(Append(cols, drop), drop)
Retained(cols, drop) == Append(cols, drop)

\* after the loop: re-append drop_column, truncate, select the columns
sel_exit ==
  /\ InStage("one_factor_selection")
  /\ ~LoopCondition
  /\ UNCHANGED <<nfits, threshold>>
  /\ IF drop_column = Unassigned
     THEN /\ Raise("UnboundLocalError")
          /\ df' = df
          /\ num_features' = num_features
     ELSE /\ num_features' \in ReadNumFeatures
          /\ LET retained == Retained(columns, drop_column)
                 kept == IF num_features' # NoneNF
                         THEN Prefix(retained, num_features')
                         ELSE retained
                 key == <<Col(IdCol)>> \o Cols(kept) \o <<Col(TargetCol)>>
             IN  IF KeyOk(df, key)
                 THEN /\ df' = GetItem(df, key)
                      /\ columns' = retained
                      /\ pc' = "tail"
                      /\ UNCHANGED <<err, callpos, len_previous_columns,
                                     list_score, previous_score, current_score,
                                     drop_column, column>>
                 ELSE /\ df' = df
                      /\ Raise("TypeError")

\* gc.collect(); save_dataframe_to_csv(self.df, ...): writes the file or raises
sel_save ==
  /\ pc = "tail"
  /\ stage = "one_factor_selection"
  /\ \/ /\ written' = written + 1
        /\ hist' = Append(hist, "save")
        /\ Return
     \/ /\ written' = written
        /\ hist' = hist
        /\ Raise("IOError")
  /\ UNCHANGED <<mode, stage, df, nfits, threshold, num_features>>
  /\ UNCHANGED config

one_factor_selection == sel_enter \/ sel_iter \/ sel_exit \/ sel_save

Next ==
  \/ init
  \/ call
  \/ create_dataframes
  \/ get_feature_by_importance
  \/ get_feature_by_shap
  \/ one_factor_calculate_score
  \/ one_factor_selection

Spec == Init /\ [][Next]_vars

TypeOK ==
  /\ pc \in {"new", "idle", "loop", "tail", "raised"}
  /\ mode \in {"none", "call", "manual"}
  /\ written \in 0..MaxCalls

\* ----------------------------------------------------------------- claims
Reducers == {"get_feature_by_importance", "get_feature_by_shap"}
FourStages ==
  Reducers \cup {"one_factor_calculate_score", "one_factor_selection"}

\* the feature block of a column list: what stands between its first and last
Features(d) == SubSeq(d, 2, Len(d) - 1)

InSelectionLoop == pc = "loop" /\ stage = "one_factor_selection"

\* C1: in one_factor_selection, when the removal of the feature X popped last
\* lowered the score by exactly threshold, X is not in the retained list the
\* method goes on with; when it lowered it by more than threshold, the loop
\* stops there and X is in the retained list.
C1_ThresholdBoundary ==
  [][(InSelectionLoop /\ drop_column # Unassigned /\ pc' # "raised") =>
       /\ (previous_score - current_score = threshold =>
              drop_column \notin Range(columns'))
       /\ (previous_score - current_score > threshold =>
              pc' = "tail" /\ drop_column \in Range(columns'))]_vars

\* C2: a reducer whose loop has ended with the survivors `columns`, one or
\* more, completes and leaves the column list [id] + columns + [target];
\* and whenever one of the four stages completes, the column list is id, then
\* features that are neither id nor target, then target.
C2_ColumnList ==
  [][/\ (pc = "loop" /\ stage = "get_feature_by_importance"
           /\ Len(columns) >= 1
           /\ ~ImpLoopCondition(columns, len_previous_columns)) =>
          (pc' = "idle" /\ df' = <<IdCol>> \o columns \o <<TargetCol>>)
     /\ (pc = "loop" /\ stage = "get_feature_by_shap"
           /\ Len(columns) >= 1
           /\ ~ShapLoopCondition(columns, len_previous_columns)) =>
          (pc' = "idle" /\ df' = <<IdCol>> \o columns \o <<TargetCol>>)
     /\ (pc # "idle" /\ pc' = "idle" /\ stage \in FourStages) =>
          /\ Len(df') >= 2
          /\ df'[1] = IdCol
          /\ df'[Len(df')] = TargetCol
          /\ Range(Features(df')) \cap {IdCol, TargetCol} = {}]_vars

\* the number of feature columns a reducer started from
InitialCount == Len(FeatureColumns(df))

InReducer == stage \in Reducers /\ pc \in {"loop", "raised"} /\ df # NoDf

\* C3 as stated: a reducer started on n >= 1 features makes at most n fit calls.
C3_AtMostN == (InReducer /\ InitialCount >= 1) => nfits <= InitialCount

\* C3 as amended: a reducer's loop cannot block, every iteration but the last
\* leaves fewer columns, and so it ends after at most n + 1 fit calls.
C3_AtMostNPlusOne ==
  /\ InReducer => nfits <= InitialCount + 1
  /\ (InReducer /\ pc = "loop" /\ nfits > 0) =>
        Len(columns) + nfits <= InitialCount + 1
  /\ (stage \in Reducers /\ pc = "loop") => ENABLED Next

C3_Witness ==
  /\ InReducer
  /\ InitialCount >= 2
  /\ nfits = InitialCount + 1

\* C4: under __call__ the file is written at most once and only by a run in
\* which every stage completed; a failure ends the run, nothing follows it, and
\* nothing has been written.
C4_AllOrNothing ==
  mode = "call" =>
    /\ written <= 1
    /\ written = 1 =>
         /\ hist = <<"create_dataframes", "get_feature_by_shap",
                     "one_factor_calculate_score", "one_factor_selection",
                     "save">>
         /\ pc = "idle"
         /\ err = "none"
    /\ pc = "raised" => (written = 0 /\ err # "none" /\ ~ENABLED Next)

C4_Witness ==
  /\ mode = "call"
  /\ pc = "raised"
  /\ stage = "one_factor_selection"
  /\ err = "ModelFitError"
  /\ nfits >= 2
  /\ written = 0

\* C5: no step of the four stages adds a feature: the feature block after the
\* step is drawn from the one before it, and is no longer.
C5_Monotone ==
  [][(df # NoDf /\ stage' \in FourStages) =>
       /\ Range(Features(df')) \subseteq Range(Features(df))
       /\ Len(Features(df')) <= Len(Features(df))]_vars

C5_Witness ==
  /\ pc = "idle"
  /\ stage = "get_feature_by_shap"
  /\ MaxFeat \in Range(Features(df))
  /\ Len(Features(df)) < MaxFeat

\* C6: entered on a dataset with exactly one feature column,
\* one_factor_calculate_score and one_factor_selection make no fit call and
\* leave the column list as it is, up to their return.
C6_SingleFeatureNoOp ==
  [][/\ (pc = "idle" /\ hist' # hist /\ df # NoDf /\ Len(Features(df)) = 1
           /\ stage' \in {"one_factor_calculate_score", "one_factor_selection"}) =>
          (df' = df /\ nfits' = 0 /\ pc' \in {"idle", "tail"})
     /\ (pc = "tail" /\ drop_column = Unassigned) =>
          (df' = df /\ nfits' = 0 /\ nfits = 0)]_vars

C6_Witness ==
  /\ pc = "idle"
  /\ stage = "one_factor_selection"
  /\ Len(Features(df)) = 1
  /\ nfits = 0
  /\ written = 1

\* C7: when num_features = k is smaller than the number of features retained
\* at the end of the loop, the column list becomes id, the first k retained
\* features in their order, target; and no fit follows.
C7_Truncation ==
  [][/\ (InSelectionLoop /\ pc' = "tail"
           /\ num_features' # NoneNF /\ num_features' < Len(columns')) =>
          /\ df' = <<IdCol>> \o SubSeq(columns', 1, num_features') \o <<TargetCol>>
          /\ nfits' = nfits
     /\ (pc = "tail" /\ stage = "one_factor_selection") =>
          (df' = df /\ nfits' = nfits)]_vars

C7_Witness ==
  /\ pc = "tail"
  /\ stage = "one_factor_selection"
  /\ drop_column # Unassigned
  /\ num_features \in 1..MaxFeat
  /\ num_features < Len(columns)
  /\ Len(Features(df)) = num_features

InScoreLoop == pc = "loop" /\ stage = "one_factor_calculate_score"

\* the single-feature score of feature f, as list_score holds it
ScoreOf(f) == list_score[CHOOSE i \in DOMAIN columns : columns[i] = f]

\* C8: one_factor_calculate_score fits once per feature, in order, on that
\* feature alone; its output is a permutation of its input features, by score
\* descending for classification and ascending for regression.
C8_OneFactorRanking ==
  [][/\ (InScoreLoop /\ pc' = "loop") =>
          /\ nfits' = nfits + 1
          /\ column' = columns[nfits']
          /\ Len(list_score') = nfits'
     /\ (InScoreLoop /\ pc' = "idle") =>
          /\ nfits = Len(columns)
          /\ Len(Features(df')) = Len(columns)
          /\ Range(Features(df')) = Range(columns)
          /\ Range(columns) = Range(Features(df))
          /\ \A i, j \in DOMAIN Features(df') :
                i < j =>
                  IF params.type = "classification"
                  THEN ScoreOf(Features(df')[i]) >= ScoreOf(Features(df')[j])
                  ELSE ScoreOf(Features(df')[i]) <= ScoreOf(Features(df')[j])]_vars

C8_Witness ==
  /\ pc = "idle"
  /\ stage = "one_factor_calculate_score"
  /\ hist = <<"create_dataframes", "one_factor_calculate_score">>
  /\ params.type = "classification"
  /\ nfits = MaxFeat
  /\ Features(df)[1] > Features(df)[2]

\* s is an initial part of t
IsPrefix(s, t) == Len(s) <= Len(t) /\ SubSeq(t, 1, Len(s)) = s

\* C9: under __call__ the methods entered are, in this order and each at most
\* once, create_dataframes, get_feature_by_shap, one_factor_calculate_score,
\* one_factor_selection, then the save; one is entered only when the one before
\* it has returned; get_feature_by_importance is not among them.
C9_CallOrder ==
  mode = "call" =>
    /\ IsPrefix(hist, <<"create_dataframes", "get_feature_by_shap",
                        "one_factor_calculate_score", "one_factor_selection",
                        "save">>)
    /\ "get_feature_by_importance" \notin Range(hist)
    /\ pc \in {"loop", "tail", "raised"} =>
         (stage = hist[Len(hist)] /\ callpos = Len(Entered(hist)))
    /\ pc = "idle" => callpos = Len(Entered(hist)) + 1

C9_Witness ==
  /\ mode = "call"
  /\ pc = "idle"
  /\ written = 1
  /\ Len(Features(df)) >= 2

\* C10: construction fails with ValueError on a path that does not exist, with
\* KeyError on an absent or falsy target, and on an absent task type; whenever
\* it fails so no attribute has been set; no fit is made without a valid task
\* type.
C10_EagerValidation ==
  /\ (stage = "__init__" /\ pc = "raised"
        /\ (\/ ~params.path_exists
            \/ ~Present(params, "target")
            \/ ~params.target_truthy
            \/ ~Present(params, "type"))) => attrs = {}
  /\ (pc # "new" /\ params.isdict /\ Present(params, "path_data")
        /\ ~params.path_exists) =>
       (stage = "__init__" /\ pc = "raised" /\ err = "ValueError")
  /\ (pc # "new" /\ params.isdict /\ Present(params, "path_data")
        /\ params.path_exists
        /\ (~Present(params, "target") \/ ~params.target_truthy)) =>
       (stage = "__init__" /\ pc = "raised" /\ err = "KeyError")
  /\ (pc # "new" /\ ~Present(params, "type")) =>
       (stage = "__init__" /\ pc = "raised")
  /\ nfits > 0 => params.type \in {"classification", "regression"}

\* C11: in one_factor_selection entered with two features or more, the first
\* test of the loop passes: from the state in which no column has been popped
\* yet, the method goes into the loop body (which assigns drop_column, or whose
\* fit fails), never on to re-append a drop_column that was not assigned.
C11_SentinelBelowScore ==
  [][(InSelectionLoop /\ drop_column = Unassigned) =>
       /\ pc' = "raised" => err' = "ModelFitError"
       /\ pc' # "raised" => (pc' = "loop" /\ drop_column' # Unassigned)]_vars

\* C12: with num_features unset, when elimination has gone down to one column
\* with every removal within threshold, the retained list the method goes on
\* with has that one feature and so has the dataset; and a popped feature that
\* is back in the retained list has cost more than threshold.
C12_DownToOne ==
  [][(InSelectionLoop /\ drop_column # Unassigned /\ pc' = "tail"
        /\ num_features' = NoneNF) =>
       /\ (Len(columns) = 1
             /\ WithinThreshold(previous_score, current_score, threshold)) =>
            (Len(columns') = 1 /\ Len(Features(df')) = 1)
       /\ drop_column \in Range(columns') =>
            ~WithinThreshold(previous_score, current_score, threshold)]_vars

\* C13: in one_factor_selection the working list is at every point a prefix of
\* the ranked feature block the method was entered with; an iteration removes
\* exactly the last column, moves current_score to previous_score and fits
\* once; after the loop nothing but the column popped last is put back, with
\* no further fit, and the features of the dataset the method leaves are a
\* prefix of that ranked block, in its order.
C13_PrefixOfRanking ==
  [][/\ (stage' = "one_factor_selection" /\ pc # "tail"
           /\ pc' \in {"loop", "tail"}) =>
          IsPrefix(columns', Features(df))
     /\ (InSelectionLoop /\ pc' = "loop") =>
          /\ columns = Append(columns', drop_column')
          /\ previous_score' = current_score
          /\ nfits' = nfits + 1
     /\ (InSelectionLoop /\ pc' = "tail") =>
          /\ columns' = Append(columns, drop_column)
          /\ nfits' = nfits
          /\ IsPrefix(Features(df'), Features(df))
          /\ IsPrefix(Features(df'), columns')]_vars

C13_Witness ==
  /\ stage = "one_factor_selection"
  /\ pc = "tail"
  /\ nfits >= 3
  /\ Len(columns) = 2
  /\ Len(Features(df)) = 1
  /\ drop_column = 2

InReducerLoop == stage \in Reducers /\ pc = "loop"

\* position of column c in the list cols
IndexOf(cols, c) == CHOOSE i \in DOMAIN cols : cols[i] = c

\* `new` holds exactly the columns of `cols` whose importance in `value` is
\* strictly positive, each once, by importance descending
PositiveDescending(value, cols, new) ==
  /\ Range(new) = {cols[i] : i \in {k \in DOMAIN cols : value[k] > 0}}
  /\ \A j, k \in DOMAIN new : j # k => new[j] # new[k]
  /\ \A j, k \in DOMAIN new :
        j < k => value[IndexOf(cols, new[j])] >= value[IndexOf(cols, new[k])]

\* get_df_importance tabulated by positions: the pairs <<value, kept>> with
\* kept a list it can return for the importance vector value
ImportanceTable ==
  UNION {UNION {{<<value, kept>> :
                   kept \in get_df_importance(value, [i \in 1..n |-> i])} :
                value \in ImportanceVectors(n)} :
         n \in 0..MaxFeat}

\* the positions in cols of the columns of new
PositionsKept(cols, new) == [k \in DOMAIN new |-> IndexOf(cols, new[k])]

\* C14: in an iteration of a reducer the new column list is what
\* get_df_importance returns for the importance vector of this fit, and for
\* whichever vector the fit returned it holds exactly the columns of strictly
\* positive importance, by importance descending; so a column kept had no zero
\* importance in that fit.
C14_PositiveDescending ==
  [][(InReducerLoop /\ pc' = "loop") =>
       /\ Range(columns') \subseteq Range(columns)
       /\ LET n == Len(columns)
              kept == PositionsKept(columns, columns')
          IN  /\ \E value \in ImportanceVectors(n) :
                    <<value, kept>> \in ImportanceTable
              /\ \A value \in ImportanceVectors(n) :
                    <<value, kept>> \in ImportanceTable =>
                      /\ PositiveDescending(value, columns, columns')
                      /\ \A c \in Range(columns') :
                            value[IndexOf(columns, c)] > 0]_vars

C14_Witness ==
  /\ InReducerLoop
  /\ nfits = 1
  /\ columns = <<3, 1>>

\* C15: the iteration after which a reducer leaves its loop has kept every
\* column it fitted on: the retained set is the set of the last fit, and the
\* count is equal only when the columns are the same.
C15_StopIsFixedPoint ==
  [][(InReducerLoop /\ pc' = "loop") =>
       /\ Range(columns') \subseteq Range(columns)
       /\ ((stage = "get_feature_by_importance"
              /\ ~ImpLoopCondition(columns', len_previous_columns'))
            \/ (stage = "get_feature_by_shap"
              /\ ~ShapLoopCondition(columns', len_previous_columns'))) =>
             Range(columns') = Range(columns)]_vars

C15_Witness ==
  /\ stage = "get_feature_by_importance"
  /\ pc = "loop"
  /\ ~ImpLoopCondition(columns, len_previous_columns)
  /\ nfits = 2
  /\ columns = <<3, 1>>

\* C16: the two reducers have the same control structure: from the same
\* dataset, locals and fit count, every step of get_feature_by_shap (its entry,
\* an iteration with its fit and the list the ranking vector gives, its
\* column selection or its failure) is a step the code of
\* get_feature_by_importance takes, and the other way round.
C16_SameControlStructure ==
  [][/\ (pc = "idle" /\ pc' # "idle" /\ stage' = "get_feature_by_shap") =>
          ImpEntry
     /\ (pc = "idle" /\ pc' # "idle" /\ stage' = "get_feature_by_importance") =>
          ShapEntry
     /\ (pc = "loop" /\ stage = "get_feature_by_shap") =>
          (ImpLoopBody \/ ImpAfterLoop)
     /\ (pc = "loop" /\ stage = "get_feature_by_importance") =>
          (ShapLoopBody \/ ShapAfterLoop)]_vars

C16_Witness ==
  /\ stage = "get_feature_by_shap"
  /\ pc = "idle"
  /\ nfits = 2
  /\ Features(df) = <<2, 1>>
====
